---- MODULE Spec2Model ----
(***************************************************************************)
(* gh-api-mcp: the two read-only tools list_tree and read_file, each       *)
(* wrapped by require_auth, on top of the external `gh` client.            *)
(*                                                                         *)
(* Python values are tagged records.  json.loads maps a JSON document to   *)
(* such a value (null is None).  Python strings that the code inspects     *)
(* character by character are sequences of one-character strings.          *)
(***************************************************************************)
EXTENDS Integers, Sequences, FiniteSets, TLC

VARIABLES session, pc, op, args, calls, steps, result

vars == <<session, pc, op, args, calls, steps, result>>

(***************************************************************************)
(* Bounds of the model.                                                    *)
(***************************************************************************)
MaxTreeLen == 2
MaxContentLen == 5

(***************************************************************************)
(* Python / JSON values.                                                   *)
(***************************************************************************)
None == [t |-> "null"]
JNum(n) == [t |-> "num", n |-> n]
JStr(s) == [t |-> "str", s |-> s]
JArr(a) == [t |-> "arr", a |-> a]
JObj(o) == [t |-> "obj", o |-> o]
EmptyObj == JObj(<<>>)

\* string literals of the source, as character sequences
S_main == <<"m", "a", "i", "n">>
S_dev == <<"d", "e", "v">>
S_blob == <<"b", "l", "o", "b">>
S_tree == <<"t", "r", "e", "e">>
S_commit == <<"c", "o", "m", "m", "i", "t">>
S_file == <<"f", "i", "l", "e">>
S_directory == <<"d", "i", "r", "e", "c", "t", "o", "r", "y">>
S_all == <<"a", "l", "l">>
S_files == <<"f", "i", "l", "e", "s">>
S_dirs == <<"d", "i", "r", "s">>
S_base64 == <<"b", "a", "s", "e", "6", "4">>
S_none == <<"n", "o", "n", "e">>
S_None == <<"N", "o", "n", "e">>

\* bool(v): Python truthiness
Truthy(v) ==
  CASE v.t = "null" -> FALSE
    [] v.t = "num" -> v.n # 0
    [] v.t = "str" -> v.s # <<>>
    [] v.t = "arr" -> v.a # <<>>
    [] v.t = "obj" -> DOMAIN v.o # {}

\* d.get(k) and d.get(k, default) on a dict
GetOr(d, k, default) == IF k \in DOMAIN d.o THEN d.o[k] ELSE default
Get(d, k) == GetOr(d, k, None)

Digit(n) == <<"0", "1", "2", "3", "4", "5", "6", "7", "8", "9">>[n + 1]

\* f"{v}": the text a value interpolates to in an f-string
FStr(v) ==
  CASE v.t = "str" -> v.s
    [] v.t = "num" -> <<Digit(v.n)>>
    [] OTHER -> S_None

\* s.startswith(prefix)
StartsWith(s, prefix) ==
  /\ Len(prefix) <= Len(s)
  /\ SubSeq(s, 1, Len(prefix)) = prefix

\* a strip of one leading "/" only, in place of lstrip
LStripOne(s) == IF s # <<>> /\ Head(s) = "/" THEN Tail(s) ELSE s

\* s.lstrip("/"): every leading "/" is removed
RECURSIVE LStripSlash(_)
LStripSlash(s) ==
  IF s # <<>> /\ Head(s) = "/" THEN LStripSlash(Tail(s)) ELSE s

\* sub in s, for strings
RECURSIVE Contains(_, _)
Contains(s, sub) ==
  IF Len(s) < Len(sub) THEN FALSE
  ELSE StartsWith(s, sub) \/ Contains(Tail(s), sub)

\* "".join(s.splitlines()): the line boundaries are removed, nothing else
LineBreaks == {"\n", "\r"}
JoinSplitLines(s) == SelectSeq(s, LAMBDA c : c \notin LineBreaks)

(***************************************************************************)
(* base64.b64decode(s, validate=strict): binascii.a2b_base64's scan.       *)
(* Result [ok |-> TRUE, bytes |-> ...] or [ok |-> FALSE] (binascii.Error). *)
(***************************************************************************)
B64Index(c) ==
  CASE c = "A" -> 0 [] c = "Q" -> 16 [] c = "Y" -> 24 [] c = "g" -> 32
    [] OTHER -> -1

\* s.encode("ascii") succeeds: b64decode raises ValueError otherwise
NonAscii == "U+00E9"
IsAscii(s) == \A i \in 1..Len(s) : s[i] # NonAscii

B64Fail == [ok |-> FALSE, bytes |-> <<>>]

RECURSIVE A2B(_, _, _, _, _, _, _, _)
A2B(s, strict, i, quad, left, pads, padding_started, out) ==
  IF i > Len(s)
  THEN IF quad # 0 THEN B64Fail ELSE [ok |-> TRUE, bytes |-> out]
  ELSE
    LET c == s[i] IN
    IF c = "="
    THEN IF strict /\ i = 1 THEN B64Fail
         ELSE IF quad >= 2 /\ quad + pads + 1 >= 4
              THEN IF strict /\ i < Len(s) THEN B64Fail
                   ELSE [ok |-> TRUE, bytes |-> out]
              ELSE A2B(s, strict, i + 1, quad, left,
                       IF quad >= 2 THEN pads + 1 ELSE pads, TRUE, out)
    ELSE
      LET v == B64Index(c) IN
      IF v < 0
      THEN IF strict THEN B64Fail
           ELSE A2B(s, strict, i + 1, quad, left, pads, padding_started, out)
      ELSE IF strict /\ padding_started THEN B64Fail
      ELSE
        CASE quad = 0 -> A2B(s, strict, i + 1, 1, v, 0, padding_started, out)
          [] quad = 1 -> A2B(s, strict, i + 1, 2, v % 16, 0, padding_started,
                             Append(out, left * 4 + v \div 16))
          [] quad = 2 -> A2B(s, strict, i + 1, 3, v % 4, 0, padding_started,
                             Append(out, left * 16 + v \div 4))
          [] quad = 3 -> A2B(s, strict, i + 1, 0, 0, 0, padding_started,
                             Append(out, left * 64 + v))

b64decode(s, validate) == A2B(s, validate, 1, 0, 0, 0, FALSE, <<>>)

(***************************************************************************)
(* bytes.decode("utf-8", errors="replace"), for one- and two-byte forms:   *)
(* the text as a sequence of code points, U+FFFD for each invalid byte.    *)
(***************************************************************************)
Replacement == 65533

RECURSIVE Utf8Replace(_)
Utf8Replace(b) ==
  IF b = <<>> THEN <<>>
  ELSE IF b[1] < 128 THEN <<b[1]>> \o Utf8Replace(Tail(b))
  ELSE IF /\ b[1] >= 194 /\ b[1] <= 223 /\ Len(b) >= 2
          /\ b[2] >= 128 /\ b[2] <= 191
       THEN <<(b[1] - 192) * 64 + (b[2] - 128)>> \o Utf8Replace(Tail(Tail(b)))
  ELSE <<Replacement>> \o Utf8Replace(Tail(b))

(***************************************************************************)
(* The external client.  A response of `gh api` is its exit status, its    *)
(* standard output and its standard error.  The output is one of: bytes    *)
(* that are not UTF-8, text that is not JSON, a JSON document, or (for the *)
(* raw media type) the bytes of a file.                                    *)
(***************************************************************************)
Resp(exit, stdout, stderr) == [exit |-> exit, stdout |-> stdout, stderr |-> stderr]
OutBadUtf8 == [sh |-> "badutf8"]
OutText == [sh |-> "text"]
OutJson(j) == [sh |-> "json", j |-> j]
OutBytes(b) == [sh |-> "bytes", b |-> b]
NoResp == [exit |-> -1]

\* json.loads(stdout)
json_loads(stdout) ==
  CASE stdout.sh = "json" -> [r |-> "ok", v |-> stdout.j]
    [] stdout.sh = "badutf8" -> [r |-> "UnicodeDecodeError", v |-> None]
    [] OTHER -> [r |-> "JSONDecodeError", v |-> None]

\* what an operation hands back: a returned str, or a propagated exception
Str(fmt, arg) == [type |-> "str", fmt |-> fmt, arg |-> arg]
Raise(exc) == [type |-> "raise", exc |-> exc]
\* what a format interpolates: the captured standard error, or a decoded text
Stderr(resp) == [stderr |-> resp.stderr]
Text(codepoints) == [text |-> codepoints]
Out(c, s, r) == [calls |-> c, steps |-> s, result |-> r]

\* one entry of the log of external invocations
AuthProbe(ok) == [cmd |-> "gh auth status", ok |-> ok]
ApiCall(argv, resp) == [cmd |-> "gh api", argv |-> argv, resp |-> resp]
Step(what) == [do |-> what]

\* check=False in place of check=True: no failure is ever raised
CalledProcessError_never(resp) == FALSE

\* run_gh_api_command(..., check=True) raises CalledProcessError
CalledProcessError(resp) == resp.exit # 0

is_authenticated(s) == s

(***************************************************************************)
(* require_auth: the wrapper of both tools.  `body` is what the wrapped    *)
(* function does when it is called.                                        *)
(***************************************************************************)
\* a wrapper that probes the session only after the wrapped function has run
require_auth_late(s, body) ==
  IF ~is_authenticated(s)
  THEN Out(<<AuthProbe(FALSE)>>, <<>>, Str("Error: User is not authenticated", None))
  ELSE Out(body.calls \o <<AuthProbe(TRUE)>>, body.steps, body.result)

require_auth(s, body) ==
  IF ~is_authenticated(s)
  THEN Out(<<AuthProbe(FALSE)>>, <<>>, Str("Error: User is not authenticated", None))
  ELSE Out(<<AuthProbe(TRUE)>> \o body.calls, body.steps, body.result)

(***************************************************************************)
(* _get_default_branch: the value returned and the invocation made.        *)
(***************************************************************************)
RepoArgv(owner, repo) == [endpoint |-> "repos/{owner}/{repo}", owner |-> owner, repo |-> repo]

get_default_branch(owner, repo, rr) ==
  LET call == <<ApiCall(RepoArgv(owner, repo), rr)>>
      parsed == json_loads(rr.stdout)
  IN  IF CalledProcessError(rr) THEN [value |-> None, calls |-> call]
      ELSE IF parsed.r # "ok" THEN [value |-> None, calls |-> call]
      ELSE IF parsed.v.t # "obj" THEN [value |-> None, calls |-> call]
      ELSE [value |-> Get(parsed.v, "default_branch"), calls |-> call]

(***************************************************************************)
(* list_tree                                                               *)
(***************************************************************************)
\* without the `or "main"` fallback
ResolveRef_nofallback(ref, default) == IF ~Truthy(ref) THEN default ELSE ref

\* `if resolved_ref is None` in place of `if not resolved_ref`
ResolveRef_isNone(ref, default) ==
  IF ref = None
  THEN IF Truthy(default) THEN default ELSE JStr(S_main)
  ELSE ref

\* resolved_ref = ref; if not resolved_ref: resolved_ref = default or "main"
ResolveRef(ref, default) ==
  IF ~Truthy(ref)
  THEN IF Truthy(default) THEN default ELSE JStr(S_main)
  ELSE ref

TreeArgv(owner, repo, resolved_ref) ==
  [endpoint |-> "repos/{owner}/{repo}/git/trees/{resolved_ref}", owner |-> owner,
   repo |-> repo, ref |-> FStr(resolved_ref), method |-> "GET", F |-> "recursive=1"]

\* "tree" in data, for the values `in` is defined on
HasTree(data) ==
  CASE data.t = "obj" -> "tree" \in DOMAIN data.o
    [] data.t = "arr" -> \E i \in 1..Len(data.a) : data.a[i] = JStr(S_tree)
    [] data.t = "str" -> Contains(data.s, S_tree)

\* the items a for loop or a comprehension draws from a list or a str
Items(v) == IF v.t = "arr" THEN v.a ELSE [i \in 1..Len(v.s) |-> JStr(<<v.s[i]>>)]

\* e.get("path", "").startswith(prefix) raises AttributeError
PathFault(e) == e.t # "obj" \/ GetOr(e, "path", JStr(<<>>)).t # "str"

PathPrefix(path) == LStripSlash(path.s)

\* if path: entries = [e for e in entries if e.get("path", "").startswith(prefix)]
PathFilter(items, path) ==
  IF Truthy(path)
  THEN SelectSeq(items, LAMBDA e : StartsWith(GetOr(e, "path", JStr(<<>>)).s, PathPrefix(path)))
  ELSE items

\* if include == "files": blobs only; elif include == "dirs": trees only
IncludeFilter(items, include) ==
  IF include = JStr(S_files)
  THEN SelectSeq(items, LAMBDA e : Get(e, "type") = JStr(S_blob))
  ELSE IF include = JStr(S_dirs)
  THEN SelectSeq(items, LAMBDA e : Get(e, "type") = JStr(S_tree))
  ELSE items

\* the projection of one surviving entry
MapEntry(e) ==
  IF Get(e, "type") = JStr(S_tree)
  THEN JObj([path |-> Get(e, "path"), type |-> JStr(S_directory)])
  ELSE JObj([path |-> Get(e, "path"), type |-> JStr(S_file), bytes |-> Get(e, "size")])

\* lines 80-117: from the parsed payload to the returned value
TreeResult(data, path, include, resolved_ref) ==
  IF data.t \in {"null", "num"} THEN Raise("TypeError")
  ELSE IF ~HasTree(data)
  THEN Str("{json}", JObj([error |-> JStr(<<"No tree in response">>), raw |-> data]))
  ELSE IF data.t # "obj" THEN Raise("TypeError")
  ELSE
    LET entries == data.o["tree"] IN
    IF entries.t \notin {"arr", "str"} THEN Raise("TypeError")
    ELSE
      LET items == Items(entries) IN
      IF Truthy(path) /\ \E i \in 1..Len(items) : PathFault(items[i])
      THEN Raise("AttributeError")
      ELSE
        LET kept == PathFilter(items, path) IN
        IF \E i \in 1..Len(kept) : kept[i].t # "obj"
        THEN Raise("AttributeError")
        ELSE
          LET survivors == IncludeFilter(kept, include)
              mapped == [i \in 1..Len(survivors) |-> MapEntry(survivors[i])]
          IN  Str("{json}", JObj([ref |-> resolved_ref,
                                 count |-> JNum(Len(mapped)),
                                 entries |-> JArr(mapped)]))

list_tree(owner, repo, ref, path, include, rr, tr) ==
  LET db == IF ~Truthy(ref) THEN get_default_branch(owner, repo, rr)
            ELSE [value |-> None, calls |-> <<>>]
      resolved_ref == ResolveRef(ref, db.value)
      calls1 == db.calls \o <<ApiCall(TreeArgv(owner, repo, resolved_ref), tr)>>
      parsed == json_loads(tr.stdout)
  IN  IF CalledProcessError(tr)
      THEN Out(calls1, <<>>, Str("Error running gh command: {e.stderr}", Stderr(tr)))
      ELSE IF parsed.r = "JSONDecodeError"
      THEN Out(calls1, <<Step("json.loads")>>, Str("Error decoding JSON: {e}", None))
      ELSE IF parsed.r = "UnicodeDecodeError"
      THEN Out(calls1, <<Step("json.loads")>>, Raise("UnicodeDecodeError"))
      ELSE Out(calls1, <<Step("json.loads"), Step("inspect")>>,
               TreeResult(parsed.v, path, include, resolved_ref))

(***************************************************************************)
(* read_file                                                               *)
(***************************************************************************)
\* if not path.startswith("/"): path = "/" + path
NormalizePath(path) == IF ~StartsWith(path, <<"/">>) THEN <<"/">> \o path ELSE path

\* api_path, with ?ref= when a ref is given, and the Accept header
ContentsArgv(owner, repo, path, ref, raw) ==
  [endpoint |-> "repos/{owner}/{repo}/contents/{path}", owner |-> owner, repo |-> repo,
   path |-> NormalizePath(path), query |-> IF Truthy(ref) THEN FStr(ref) ELSE <<>>,
   accept_raw |-> raw]

DownloadArgv(download_url) == [endpoint |-> "{download_url}", url |-> download_url.s, accept_raw |-> TRUE]

\* stdout.decode("utf-8", errors="replace")
RawText(resp) == Str("{text}", Text(Utf8Replace(resp.stdout.b)))

\* without the `is not None` test
EncodingRejected_any(encoding) == encoding # JStr(S_base64)

\* encoding is not None and encoding != "base64"
EncodingRejected(encoding) == encoding # None /\ encoding # JStr(S_base64)

\* lines 193-205: the base64 stage on a str content
DecodeStage(content) ==
  LET normalized_b64 == JoinSplitLines(content)
      strict == b64decode(normalized_b64, TRUE)
      lenient == b64decode(normalized_b64, FALSE)
      try1 == [do |-> "b64decode", validate |-> TRUE, arg |-> normalized_b64]
      try2 == [do |-> "b64decode", validate |-> FALSE, arg |-> normalized_b64]
      norm == Step("splitlines")
  IN  IF ~IsAscii(normalized_b64) THEN [steps |-> <<norm, try1>>, result |-> Raise("ValueError")]
      ELSE IF strict.ok
      THEN [steps |-> <<norm, try1>>, result |-> Str("{text}", Text(Utf8Replace(strict.bytes)))]
      ELSE IF lenient.ok
      THEN [steps |-> <<norm, try1, try2>>, result |-> Str("{text}", Text(Utf8Replace(lenient.bytes)))]
      ELSE [steps |-> <<norm, try1, try2>>, result |-> Str("Error decoding base64: {e}", None)]

\* lines 169-207: from the parsed payload to the returned value
ContentResult(data, dr) ==
  IF data.t # "obj" THEN Out(<<>>, <<>>, Raise("AttributeError"))
  ELSE
    LET content_b64 == Get(data, "content")
        download_url == Get(data, "download_url")
        encoding == Get(data, "encoding")
    IN  IF content_b64 = None
        THEN IF Truthy(download_url)
             THEN IF download_url.t # "str" THEN Out(<<>>, <<>>, Raise("TypeError"))
                  ELSE IF CalledProcessError(dr)
                  THEN Out(<<ApiCall(DownloadArgv(download_url), dr)>>, <<>>,
                           Str("Error fetching raw content: {e.stderr}", Stderr(dr)))
                  ELSE Out(<<ApiCall(DownloadArgv(download_url), dr)>>, <<>>, RawText(dr))
             ELSE Out(<<>>, <<>>, Str("Error: No 'content' key found in response", None))
        ELSE IF EncodingRejected(encoding)
        THEN Out(<<>>, <<>>, Str("Error: Unexpected encoding '{encoding}'", encoding))
        ELSE IF content_b64.t # "str"
        THEN Out(<<>>, <<Step("splitlines")>>, Raise("AttributeError"))
        ELSE LET d == DecodeStage(content_b64.s) IN Out(<<>>, d.steps, d.result)

\* whether the structured path of read_file asks for the download (a second response)
NeedsDownload(cr) ==
  /\ ~CalledProcessError(cr)
  /\ json_loads(cr.stdout).r = "ok"
  /\ json_loads(cr.stdout).v.t = "obj"
  /\ Get(json_loads(cr.stdout).v, "content") = None
  /\ Get(json_loads(cr.stdout).v, "download_url").t = "str"
  /\ Truthy(Get(json_loads(cr.stdout).v, "download_url"))

read_file(owner, repo, path, ref, raw, cr, dr) ==
  LET call == <<ApiCall(ContentsArgv(owner, repo, path, ref, raw), cr)>>
      parsed == json_loads(cr.stdout)
  IN  IF CalledProcessError(cr)
      THEN Out(call, <<>>, Str("Error running gh command: {e.stderr}", Stderr(cr)))
      ELSE IF raw THEN Out(call, <<>>, RawText(cr))
      ELSE IF parsed.r = "JSONDecodeError"
      THEN Out(call, <<Step("json.loads")>>, Str("Error decoding JSON: {e}", None))
      ELSE IF parsed.r = "UnicodeDecodeError"
      THEN Out(call, <<Step("json.loads")>>, Raise("UnicodeDecodeError"))
      ELSE LET c == ContentResult(parsed.v, dr)
           IN  Out(call \o c.calls, <<Step("json.loads"), Step("inspect")>> \o c.steps, c.result)

(***************************************************************************)
(* The inputs: the arguments a host passes and the responses of `gh`.      *)
(***************************************************************************)
RECURSIVE SeqsUpTo(_, _)
SeqsUpTo(S, n) ==
  IF n = 0 THEN {<<>>}
  ELSE LET shorter == SeqsUpTo(S, n - 1)
       IN  shorter \cup {Append(q, x) : q \in {r \in shorter : Len(r) = n - 1}, x \in S}

Owners == {"acme"}
Repos == {"widgets"}
Refs == {None, JStr(<<>>), JStr(S_dev)}
S_src == <<"s", "r", "c">>
TreePaths == {None, JStr(<<>>), JStr(<<"/">>), JStr(S_src), JStr(<<"/">> \o S_src),
              JStr(<<"/", "/">> \o S_src)}
Includes == {JStr(S_all), JStr(S_files), JStr(S_dirs)}
FilePaths == {<<"R">>, <<"/", "R">>}
Stderrs == {"gh: Not Found (HTTP 404)", "gh: Bad credentials (HTTP 401)"}

E_a == JObj([path |-> JStr(S_src \o <<"/", "a", ".", "t", "x", "t">>), type |-> JStr(S_blob), size |-> JNum(10)])
E_b == JObj([path |-> JStr(S_src \o <<"2", "/", "b", ".", "t", "x", "t">>), type |-> JStr(S_blob), size |-> JNum(3)])
E_src == JObj([path |-> JStr(S_src), type |-> JStr(S_tree)])
E_sub == JObj([path |-> JStr(<<"v", "/", "m">>), type |-> JStr(S_commit)])
E_nullpath == JObj([path |-> None, type |-> JStr(S_blob), size |-> JNum(1)])
EntryPool == {E_a, E_b, E_src, E_sub, E_nullpath}
Trees == SeqsUpTo(EntryPool, MaxTreeLen)

Failures(stdout) == {Resp(1, stdout, e) : e \in Stderrs}

RepoDocs ==
  {None, JArr(<<>>), EmptyObj}
  \cup {JObj([default_branch |-> b]) : b \in {None, JStr(<<>>), JStr(S_dev), JNum(7)}}
RepoResponses ==
  Failures(OutText) \cup {Resp(1, OutJson(JObj([default_branch |-> JStr(S_dev)])), "")}
  \cup {Resp(0, o, "") : o \in {OutBadUtf8, OutText} \cup {OutJson(j) : j \in RepoDocs}}

TreeDocs ==
  {None, JNum(5), JStr(<<"x">>), JStr(S_tree), JArr(<<>>), JArr(<<JStr(S_tree)>>), EmptyObj,
   JObj([tree |-> None]), JObj([tree |-> JStr(<<>>)]), JObj([tree |-> JArr(<<JNum(1)>>)])}
  \cup {JObj([tree |-> JArr(t), truncated |-> JNum(0)]) : t \in Trees}
TreeResponses ==
  Failures(OutText) \cup {Resp(1, OutJson(JObj([tree |-> JArr(<<E_a>>)])), "")}
  \cup {Resp(0, o, "") : o \in {OutBadUtf8, OutText} \cup {OutJson(j) : j \in TreeDocs}}

B64Chars == {"Y", "=", " ", "\n"}
Contents == SeqsUpTo(B64Chars, MaxContentLen) \cup {<<NonAscii>>, <<"Y", "Y", "=", "=", NonAscii>>}
Encodings == {JStr(S_base64), JStr(S_none), None}
S_url == <<"h", "t", "t", "p", "s", ":", "/", "/", "r", "a", "w">>
ContentDocs ==
  {None, JNum(5), JStr(<<"x">>), JArr(<<>>), EmptyObj,
   JObj([content |-> None, encoding |-> JStr(S_none)]),
   JObj([content |-> None, download_url |-> JStr(S_url)]),
   JObj([content |-> JNum(5)]),
   JObj([content |-> JNum(5), encoding |-> JStr(S_none)])}
  \cup {JObj([download_url |-> u]) : u \in {None, JStr(<<>>), JStr(S_url), JNum(5)}}
  \cup {JObj([content |-> JStr(c)]) : c \in Contents}
  \cup {JObj([content |-> JStr(c), encoding |-> e]) : c \in Contents, e \in Encodings}
ContentResponses ==
  Failures(OutText) \cup {Resp(1, OutJson(JObj([content |-> JStr(<<"Y", "Y", "=", "=">>)])), "")}
  \cup {Resp(0, o, "") : o \in {OutBadUtf8, OutText} \cup {OutJson(j) : j \in ContentDocs}}

RawBytes == {<<>>, <<104, 105>>, <<255>>}
RawResponses == Failures(OutBytes(<<>>)) \cup {Resp(0, OutBytes(b), "") : b \in RawBytes}

(***************************************************************************)
(* The state machine.  The host calls one tool at a time; a call runs the  *)
(* wrapper and the tool to its return.                                     *)
(***************************************************************************)
NoResult == [type |-> "none"]

Init ==
  /\ session = TRUE
  /\ pc = "idle"
  /\ op = "none"
  /\ args = <<>>
  /\ calls = <<>>
  /\ steps = <<>>
  /\ result = NoResult

\* the session is owned by the external client: `gh auth login` / `logout`
SessionChange ==
  /\ pc = "idle"
  /\ session' = ~session
  /\ UNCHANGED <<pc, op, args, calls, steps, result>>

ListTreeCall ==
  /\ pc = "idle"
  /\ \E owner \in Owners, repo \in Repos, ref \in Refs, path \in TreePaths, include \in Includes :
       \E rr \in IF session /\ ~Truthy(ref) THEN RepoResponses ELSE {NoResp} :
         \E tr \in IF session THEN TreeResponses ELSE {NoResp} :
           LET o == require_auth(session, list_tree(owner, repo, ref, path, include, rr, tr))
           IN  /\ op' = "list_tree"
               /\ args' = [owner |-> owner, repo |-> repo, ref |-> ref, path |-> path,
                           include |-> include]
               /\ calls' = o.calls
               /\ steps' = o.steps
               /\ result' = o.result
  /\ pc' = "returned"
  /\ UNCHANGED session

ReadFileCall ==
  /\ pc = "idle"
  /\ \E owner \in Owners, repo \in Repos, path \in FilePaths, ref \in Refs, raw \in BOOLEAN :
       \E cr \in IF ~session THEN {NoResp} ELSE IF raw THEN RawResponses ELSE ContentResponses :
         \E dr \in IF session /\ ~raw /\ NeedsDownload(cr) THEN RawResponses ELSE {NoResp} :
           LET o == require_auth(session, read_file(owner, repo, path, ref, raw, cr, dr))
           IN  /\ op' = "read_file"
               /\ args' = [owner |-> owner, repo |-> repo, path |-> path, ref |-> ref,
                           raw |-> raw]
               /\ calls' = o.calls
               /\ steps' = o.steps
               /\ result' = o.result
  /\ pc' = "returned"
  /\ UNCHANGED session

\* the host takes the returned value; nothing of the call survives it
HostReturn ==
  /\ pc = "returned"
  /\ pc' = "idle"
  /\ op' = "none"
  /\ args' = <<>>
  /\ calls' = <<>>
  /\ steps' = <<>>
  /\ result' = NoResult
  /\ UNCHANGED session

Next == SessionChange \/ ListTreeCall \/ ReadFileCall \/ HostReturn

Spec == Init /\ [][Next]_vars

(***************************************************************************)
(* Vocabulary of the properties.                                           *)
(***************************************************************************)
Returned == pc = "returned"
Authenticated == Returned /\ calls[1].ok
NotAuthenticatedText == Str("Error: User is not authenticated", None)
ExecErrorText(resp) == Str("Error running gh command: {e.stderr}", Stderr(resp))
RawErrorText(resp) == Str("Error fetching raw content: {e.stderr}", Stderr(resp))
DecodeErrorText == Str("Error decoding JSON: {e}", None)
NoContentText == Str("Error: No 'content' key found in response", None)
IsResolverCall(c) == c.cmd = "gh api" /\ c.argv.endpoint = "repos/{owner}/{repo}"
IsTreeCall(c) ==
  c.cmd = "gh api" /\ c.argv.endpoint = "repos/{owner}/{repo}/git/trees/{resolved_ref}"
IsDownloadCall(c) == c.cmd = "gh api" /\ c.argv.endpoint = "{download_url}"
\* the result is a serialized tree listing
TreeListed ==
  /\ Returned /\ op = "list_tree"
  /\ result.type = "str" /\ result.fmt = "{json}"
  /\ "entries" \in DOMAIN result.arg.o
\* read_file in structured mode went past the authentication gate
Structured == Authenticated /\ op = "read_file" /\ ~args.raw
\* the payload a structured read_file parsed
ParsedOk == Structured /\ calls[2].resp.exit = 0 /\ calls[2].resp.stdout.sh = "json"
Payload == calls[2].resp.stdout.j
HasField(d, k) == d.t = "obj" /\ k \in DOMAIN d.o
B64Steps == SelectSeq(steps, LAMBDA x : x.do = "b64decode")

(* C1: every call of list_tree or read_file probes the session exactly     *)
(* once, before any other external invocation; when the probe reports an   *)
(* invalid session the call returns exactly "Error: User is not            *)
(* authenticated" and makes no API invocation.                             *)
C1_AuthGate ==
  Returned =>
    /\ Len(calls) >= 1
    /\ calls[1] = AuthProbe(session)
    /\ \A i \in 2..Len(calls) : calls[i].cmd = "gh api"
    /\ ~session => (result = NotAuthenticatedText /\ Len(calls) = 1)

C1_Witness ==
  /\ Returned /\ op = "list_tree" /\ ~session
  /\ calls = <<AuthProbe(FALSE)>>
  /\ result = NotAuthenticatedText

(* C2: an authenticated call of list_tree or read_file always ends by      *)
(* returning a string, whatever the exit status and output of the          *)
(* external command (unparsable text, or JSON of any shape); it never      *)
(* ends in a propagated exception.                                         *)
C2_AlwaysReturnsString ==
  (/\ Authenticated
   /\ \A i \in 2..Len(calls) : calls[i].resp.stdout.sh \in {"text", "json", "bytes"})
  => result.type = "str"

(* C3: every failed API invocation is surfaced at once as the call's       *)
(* error result: it is the last invocation of the call and the value       *)
(* returned is the error built from it.                                    *)
C3_EveryFailureSurfaced ==
  Returned =>
    \A i \in 2..Len(calls) :
      calls[i].resp.exit # 0 =>
        /\ i = Len(calls)
        /\ result \in {ExecErrorText(calls[i].resp), RawErrorText(calls[i].resp)}

(* C3 as amended: a failed tree, content or download invocation is the     *)
(* last invocation of its call and the call returns the error built from   *)
(* its standard error; a failed default-branch invocation is not surfaced: *)
(* it is followed by exactly one invocation, the tree fetch for "main".    *)
C3_FailureSurfacedExceptResolver ==
  Returned =>
    \A i \in 2..Len(calls) :
      calls[i].resp.exit # 0 =>
        IF IsResolverCall(calls[i])
        THEN /\ Len(calls) = i + 1
             /\ IsTreeCall(calls[i + 1])
             /\ calls[i + 1].argv.ref = S_main
        ELSE /\ i = Len(calls)
             /\ result = IF IsDownloadCall(calls[i]) THEN RawErrorText(calls[i].resp)
                         ELSE ExecErrorText(calls[i].resp)

C3_Witness ==
  /\ TreeListed /\ Len(calls) = 3
  /\ IsResolverCall(calls[2]) /\ calls[2].resp.exit # 0
  /\ calls[3].resp.exit = 0

\* what the default-branch response yields: the field, or None for no value
Yielded(resp) ==
  IF resp.exit = 0 /\ resp.stdout.sh = "json" /\ HasField(resp.stdout.j, "default_branch")
  THEN resp.stdout.j.o["default_branch"]
  ELSE None

(* C4: the ref of the tree fetch and the ref of a listing are the same     *)
(* value: the supplied ref when one is supplied (the resolver is then not  *)
(* invoked), else the resolver's default branch, else "main" when the      *)
(* resolver yields no value.                                               *)
C4_ResolvedRef ==
  (Authenticated /\ op = "list_tree") =>
    LET n == Len(calls)
        expected == IF args.ref # None THEN args.ref
                    ELSE IF Yielded(calls[2].resp) # None THEN Yielded(calls[2].resp)
                    ELSE JStr(S_main)
    IN  /\ IsTreeCall(calls[n])
        /\ (args.ref # None) => n = 2
        /\ (args.ref = None) => (n = 3 /\ IsResolverCall(calls[2]))
        /\ calls[n].argv.ref = FStr(expected)
        /\ TreeListed => result.arg.o.ref = expected

(* C4 as amended: the supplied ref when it is non-empty (the resolver is   *)
(* then not invoked); when the ref is missing or empty the resolver is     *)
(* invoked once and its default branch is used when that is a non-empty    *)
(* (truthy) value, and "main" otherwise.  The tree fetch and the listing   *)
(* carry that same value.                                                  *)
C4_ResolvedRefTruthy ==
  (Authenticated /\ op = "list_tree") =>
    LET n == Len(calls)
        supplied == args.ref # None /\ args.ref.s # <<>>
        expected == IF supplied THEN args.ref
                    ELSE IF Truthy(Yielded(calls[2].resp)) THEN Yielded(calls[2].resp)
                    ELSE JStr(S_main)
    IN  /\ IsTreeCall(calls[n])
        /\ supplied => n = 2
        /\ ~supplied => (n = 3 /\ IsResolverCall(calls[2]))
        /\ calls[n].argv.ref = FStr(expected)
        /\ TreeListed => result.arg.o.ref = expected

C4_Witness ==
  /\ TreeListed /\ args.ref = JStr(<<>>) /\ Len(calls) = 3
  /\ Yielded(calls[2].resp) = JStr(S_dev)
  /\ calls[3].argv.ref = S_dev
  /\ result.arg.o.ref = JStr(S_dev)

(* C5: in every listing count is the number of entries, no directory       *)
(* entry has a size field, and every file entry has one, an integer.       *)
C5_CountAndSize ==
  TreeListed =>
    LET r == result.arg.o IN
    /\ r.count = JNum(Len(r.entries.a))
    /\ \A i \in 1..Len(r.entries.a) :
         LET e == r.entries.a[i] IN
         /\ e.o.type \in {JStr(S_file), JStr(S_directory)}
         /\ e.o.type = JStr(S_directory) => "bytes" \notin DOMAIN e.o
         /\ e.o.type = JStr(S_file) => ("bytes" \in DOMAIN e.o /\ e.o.bytes.t = "num")

\* the entries the tree fetch of a listing returned
Fetched == Items(calls[Len(calls)].resp.stdout.j.o["tree"])
PathOf(e) == GetOr(e, "path", JStr(<<>>)).s
KindKept(e) ==
  /\ args.include = JStr(S_files) => Get(e, "type") = JStr(S_blob)
  /\ args.include = JStr(S_dirs) => Get(e, "type") = JStr(S_tree)
Projected(es) == [i \in 1..Len(es) |-> MapEntry(es[i])]
\* p is s without its first k characters, all of them "/"
SlashesCut(s, k, p) ==
  /\ k <= Len(s)
  /\ \A i \in 1..k : s[i] = "/"
  /\ p = SubSeq(s, k + 1, Len(s))

(* C6: with a path given, the entries of a listing are the fetched         *)
(* entries, in fetched order, whose path starts with the path string       *)
(* after removing a single leading "/" (at most one), restricted to blobs  *)
(* for include="files" and to trees for include="dirs".                    *)
C6_PrefixSingleSlash ==
  (TreeListed /\ Truthy(args.path)) =>
    LET s == args.path.s
        p == IF s # <<>> /\ s[1] = "/" THEN SubSeq(s, 2, Len(s)) ELSE s
    IN  result.arg.o.entries.a =
          Projected(SelectSeq(Fetched, LAMBDA e : StartsWith(PathOf(e), p) /\ KindKept(e)))

(* C6 as amended: every leading "/" of the path is removed, not only one;  *)
(* the rest of the claim stands.                                           *)
C6_PrefixAllSlashes ==
  (TreeListed /\ Truthy(args.path)) =>
    \E k \in 0..Len(args.path.s) :
      LET p == SubSeq(args.path.s, k + 1, Len(args.path.s)) IN
      /\ SlashesCut(args.path.s, k, p)
      /\ p = <<>> \/ p[1] # "/"
      /\ result.arg.o.entries.a =
           Projected(SelectSeq(Fetched, LAMBDA e : StartsWith(PathOf(e), p) /\ KindKept(e)))

C6_Witness ==
  /\ TreeListed /\ args.path = JStr(<<"/", "/">> \o S_src) /\ args.include = JStr(S_files)
  /\ Fetched = <<E_src, E_b>>
  /\ result.arg.o.entries.a = <<MapEntry(E_b)>>

\* the main fetch of a call: the tree fetch, or the content fetch
MainFetch == IF op = "list_tree" THEN calls[Len(calls)] ELSE calls[2]
\* results that only an inspection of the parsed fields produces
FieldLevelResult ==
  /\ result.type = "str"
  /\ result.fmt \in {"{json}", "{text}", "Error: No 'content' key found in response",
                     "Error: Unexpected encoding '{encoding}'",
                     "Error fetching raw content: {e.stderr}",
                     "Error decoding base64: {e}"}

UrlReported == HasField(Payload, "download_url") /\ Truthy(Payload.o["download_url"])

(* C8: in structured read_file, after a successful parse with no content   *)
(* field: with a download URL reported, exactly one further raw fetch of   *)
(* that URL is made and the call returns its decoded output, or the error  *)
(* carrying its standard error when it fails; with none reported, no       *)
(* further invocation is made and the result is exactly "Error: No         *)
(* 'content' key found in response".                                       *)
C8_NoContentField ==
  (ParsedOk /\ ~HasField(Payload, "content")) =>
    IF UrlReported
    THEN /\ Len(calls) = 3
         /\ IsDownloadCall(calls[3])
         /\ FStr(Payload.o["download_url"]) = calls[3].argv.url
         /\ result = IF calls[3].resp.exit # 0 THEN RawErrorText(calls[3].resp)
                     ELSE Str("{text}", Text(Utf8Replace(calls[3].resp.stdout.b)))
    ELSE /\ Len(calls) = 2
         /\ result = NoContentText

(* C9: in structured read_file, when the content field is present and the  *)
(* encoding field is present with a value other than "base64", the call    *)
(* returns the error naming that value and attempts no base64 decode;      *)
(* when the encoding is absent or "base64" the decode pipeline is entered. *)
C9_EncodingCheck ==
  (ParsedOk /\ HasField(Payload, "content")) =>
    IF HasField(Payload, "encoding") /\ Payload.o["encoding"] # JStr(S_base64)
    THEN /\ result = Str("Error: Unexpected encoding '{encoding}'", Payload.o["encoding"])
         /\ B64Steps = <<>>
    ELSE Step("splitlines") \in {steps[i] : i \in 1..Len(steps)}

(* C9 as amended: "present" means present with a value that is not null,   *)
(* for the content field and for the encoding field alike: a null content  *)
(* is handled as a missing one, and a null encoding as an absent one.      *)
C9_EncodingCheckNonNull ==
  (ParsedOk /\ HasField(Payload, "content") /\ Payload.o["content"] # None) =>
    IF Get(Payload, "encoding") # None /\ Get(Payload, "encoding") # JStr(S_base64)
    THEN /\ result = Str("Error: Unexpected encoding '{encoding}'", Payload.o["encoding"])
         /\ B64Steps = <<>>
         /\ Step("splitlines") \notin {steps[i] : i \in 1..Len(steps)}
    ELSE /\ Len(steps) >= 3
         /\ steps[3] = Step("splitlines")

C9_Witness ==
  /\ ParsedOk
  /\ Payload = JObj([content |-> JStr(<<"Y", "Y", "=", "=">>), encoding |-> JStr(S_none)])
  /\ result = Str("Error: Unexpected encoding '{encoding}'", JStr(S_none))

\* str.split's whitespace, all of it removed
Whitespace == {" ", "\n", "\r", "\t"}
WhitespaceStripped(s) == SelectSeq(s, LAMBDA c : c \notin Whitespace)

(* C10: the base64 stage tries strict decode first, on the content with    *)
(* its whitespace stripped, and lenient decode only if strict failed; the  *)
(* bytes of the first success are decoded permissively and returned, and   *)
(* only if both fail is the error string returned.                         *)
C10_DecodeOrder ==
  (ParsedOk /\ HasField(Payload, "content") /\ Payload.o["content"].t = "str"
     /\ Step("splitlines") \in {steps[i] : i \in 1..Len(steps)}) =>
    LET stripped == WhitespaceStripped(Payload.o["content"].s)
        strict == b64decode(stripped, TRUE)
        lenient == b64decode(stripped, FALSE)
    IN  /\ Len(B64Steps) >= 1
        /\ B64Steps[1] = [do |-> "b64decode", validate |-> TRUE, arg |-> stripped]
        /\ Len(B64Steps) = IF strict.ok THEN 1 ELSE 2
        /\ ~strict.ok => B64Steps[2] = [do |-> "b64decode", validate |-> FALSE, arg |-> stripped]
        /\ result = IF strict.ok THEN Str("{text}", Text(Utf8Replace(strict.bytes)))
                    ELSE IF lenient.ok THEN Str("{text}", Text(Utf8Replace(lenient.bytes)))
                    ELSE Str("Error decoding base64: {e}", None)

====
